---- MODULE Spec2Model ----
(***************************************************************************)
(* A model of the rfc command line tool: the document identity             *)
(* (src/src/models/document.rs), the on-disk cache                         *)
(* (src/src/cache/storage.rs) and the fetch pipeline (src/src/main.rs).    *)
(*                                                                         *)
(* Strings are sequences of one-character strings, so that trimming,       *)
(* lower-casing, prefixes and file stems are computed and not assumed.     *)
(* An Option is a sequence of length at most one: None is << >> and        *)
(* Some(x) is <<x>>.                                                       *)
(***************************************************************************)
EXTENDS Integers, Sequences, FiniteSets, TLC

VARIABLES
    cache_dir,  \* the directory tree at CacheManager.cache_dir
    io_errors,  \* how many file-system calls have failed so far
    last,       \* the most recent operation and what it returned
    running     \* the invocations in flight on the directory, each at its step

vars == <<cache_dir, io_errors, last, running>>

None == << >>

Some(x) == <<x>>

IsSome(o) == Len(o) = 1

Unwrap(o) == o[1]

(***************************************************************************)
(* Strings.                                                                *)
(***************************************************************************)
Digits == <<"0", "1", "2", "3", "4", "5", "6", "7", "8", "9">>

IsDigit(c) == \E i \in 1..10 : Digits[i] = c

DigitValue(c) == (CHOOSE i \in 1..10 : Digits[i] = c) - 1

IsWhitespace(c) == c = " "

\* char::to_lowercase on the letters the inputs use.
LowerChar(c) ==
    CASE c = "A" -> "a"
      [] c = "C" -> "c"
      [] c = "D" -> "d"
      [] c = "F" -> "f"
      [] c = "R" -> "r"
      [] c = "T" -> "t"
      [] c = "X" -> "x"
      [] OTHER -> c

to_lowercase(s) == [i \in 1..Len(s) |-> LowerChar(s[i])]

RECURSIVE trim_start(_)
trim_start(s) ==
    IF s # << >> /\ IsWhitespace(Head(s)) THEN trim_start(Tail(s)) ELSE s

RECURSIVE trim_end(_)
trim_end(s) ==
    IF s # << >> /\ IsWhitespace(s[Len(s)])
    THEN trim_end(SubSeq(s, 1, Len(s) - 1))
    ELSE s

trim(s) == trim_end(trim_start(s))

starts_with(s, p) == Len(p) <= Len(s) /\ SubSeq(s, 1, Len(p)) = p

strip_prefix(s, p) ==
    IF starts_with(s, p) THEN Some(SubSeq(s, Len(p) + 1, Len(s))) ELSE None

contains(s, p) ==
    \E i \in 1..(Len(s) - Len(p) + 1) : SubSeq(s, i, i + Len(p) - 1) = p

\* u32::MAX, 4294967295, as its decimal digits.
U32MaxDigits == <<"4", "2", "9", "4", "9", "6", "7", "2", "9", "5">>

RECURSIVE StripZeros(_)
StripZeros(s) ==
    IF Len(s) > 1 /\ Head(s) = "0" THEN StripZeros(Tail(s)) ELSE s

RECURSIVE DigitsLeq(_, _)
\* d <= e as numbers, for digit strings of one length.
DigitsLeq(d, e) ==
    IF d = << >> THEN TRUE
    ELSE IF DigitValue(Head(d)) < DigitValue(Head(e)) THEN TRUE
    ELSE IF DigitValue(Head(d)) > DigitValue(Head(e)) THEN FALSE
    ELSE DigitsLeq(Tail(d), Tail(e))

\* Whether the number a digit string denotes fits a u32.
FitsU32(s) ==
    LET d == StripZeros(s)
    IN  \/ Len(d) < Len(U32MaxDigits)
        \/ Len(d) = Len(U32MaxDigits) /\ DigitsLeq(d, U32MaxDigits)

RECURSIVE DigitsValue(_, _)
DigitsValue(s, acc) ==
    IF s = << >> THEN acc
    ELSE DigitsValue(Tail(s), acc * 10 + DigitValue(Head(s)))

\* str::parse::<u32> keeping the first nine digits of a number that does not
\* fit, instead of failing.
parse_u32_Truncating(s) ==
    LET body == IF s # << >> /\ Head(s) = "+" THEN Tail(s) ELSE s
    IN  IF body = << >> \/ \E i \in 1..Len(body) : ~IsDigit(body[i]) THEN None
        ELSE IF ~FitsU32(body) THEN Some(DigitsValue(SubSeq(body, 1, 9), 0))
        ELSE Some(DigitsValue(body, 0))

\* str::parse::<u32>: an optional leading "+", then one or more digits whose
\* value fits a u32.
parse_u32(s) ==
    LET body == IF s # << >> /\ Head(s) = "+" THEN Tail(s) ELSE s
    IN  IF body = << >> \/ \E i \in 1..Len(body) : ~IsDigit(body[i]) THEN None
        ELSE IF ~FitsU32(body) THEN None
        ELSE Some(DigitsValue(body, 0))

RECURSIVE Decimal(_)
\* format!("{}", num) of an unsigned integer.
Decimal(n) ==
    IF n < 10 THEN <<Digits[n + 1]>>
    ELSE Decimal(n \div 10) \o <<Digits[(n % 10) + 1]>>

(***************************************************************************)
(* DocumentType (src/src/models/document.rs).                              *)
(***************************************************************************)
Rfc(n) == [tag |-> "Rfc", num |-> n, name |-> << >>]

Draft(s) == [tag |-> "Draft", num |-> 0, name |-> s]

StrRfc == <<"r", "f", "c">>

StrDraft == <<"d", "r", "a", "f", "t">>

StrDraftDash == <<"d", "r", "a", "f", "t", "-">>

\* DocumentType::parse without the trim of what follows the prefix.
parse_UntrimmedNumber(input) ==
    LET s == to_lowercase(trim(input))
        stripped == strip_prefix(s, StrRfc)
        prefixed == IF IsSome(stripped) THEN parse_u32(Unwrap(stripped))
                    ELSE None
        plain == parse_u32(s)
    IN  IF IsSome(prefixed) THEN Some(Rfc(Unwrap(prefixed)))
        ELSE IF IsSome(plain) THEN Some(Rfc(Unwrap(plain)))
        ELSE IF starts_with(s, StrDraftDash) \/ contains(s, StrDraft)
             THEN Some(Draft(s))
        ELSE None

\* DocumentType::parse taking a prefix without a number for RFC 0.
parse_BarePrefixIsZero(input) ==
    LET s == to_lowercase(trim(input))
        stripped == strip_prefix(s, StrRfc)
        prefixed == IF IsSome(stripped)
                    THEN IF trim(Unwrap(stripped)) = << >> THEN Some(0)
                         ELSE parse_u32(trim(Unwrap(stripped)))
                    ELSE None
        plain == parse_u32(s)
    IN  IF IsSome(prefixed) THEN Some(Rfc(Unwrap(prefixed)))
        ELSE IF IsSome(plain) THEN Some(Rfc(Unwrap(plain)))
        ELSE IF starts_with(s, StrDraftDash) \/ contains(s, StrDraft)
             THEN Some(Draft(s))
        ELSE None

\* DocumentType::parse
parse(input) ==
    LET s == to_lowercase(trim(input))
        stripped == strip_prefix(s, StrRfc)
        prefixed == IF IsSome(stripped) THEN parse_u32(trim(Unwrap(stripped)))
                    ELSE None
        plain == parse_u32(s)
    IN  IF IsSome(prefixed) THEN Some(Rfc(Unwrap(prefixed)))
        ELSE IF IsSome(plain) THEN Some(Rfc(Unwrap(plain)))
        ELSE IF starts_with(s, StrDraftDash) \/ contains(s, StrDraft)
             THEN Some(Draft(s))
        ELSE None

\* DocumentType::name
name(doc) ==
    IF doc.tag = "Rfc" THEN StrRfc \o Decimal(doc.num) ELSE doc.name

\* DocumentType::display_name with a dash for the space.
display_name_Dashed(doc) ==
    IF doc.tag = "Rfc" THEN <<"R", "F", "C", "-">> \o Decimal(doc.num)
    ELSE doc.name

\* DocumentType::display_name
display_name(doc) ==
    IF doc.tag = "Rfc" THEN <<"R", "F", "C", " ">> \o Decimal(doc.num)
    ELSE doc.name

\* DataTrackerClient::is_rfc_or_draft letting every record pass.
is_rfc_or_draft_Any(api_name) == TRUE

\* DataTrackerClient::is_rfc_or_draft (src/src/api/datatracker.rs)
is_rfc_or_draft(api_name) ==
    starts_with(api_name, StrRfc) \/ starts_with(api_name, StrDraftDash)

\* DataTrackerClient::parse_doc_type
parse_doc_type(api_name) ==
    LET num_str == strip_prefix(api_name, StrRfc)
        num == IF IsSome(num_str) THEN parse_u32(Unwrap(num_str)) ELSE None
    IN  IF IsSome(num) THEN Rfc(Unwrap(num)) ELSE Draft(api_name)

\* parse_document taking an unmatched input for the draft name as it is.
parse_document_NoPrefix(doc) ==
    LET parsed == parse(doc)
    IN  IF IsSome(parsed) THEN Unwrap(parsed) ELSE Draft(doc)

\* parse_document (src/src/main.rs): the caller's fallback to a draft name.
parse_document(doc) ==
    LET parsed == parse(doc)
    IN  IF IsSome(parsed) THEN Unwrap(parsed)
        ELSE IF starts_with(doc, StrDraftDash) THEN Draft(doc)
        ELSE Draft(StrDraftDash \o doc)

(***************************************************************************)
(* The inputs: what the user types, the identifiers it resolves to, the    *)
(* contents the remote source serves and the titles the index knows.       *)
(***************************************************************************)
UserInputs ==
    { <<"R", "F", "C", " ", "1">>,
      <<"A">> }

\* parse_document of each input, worked out once.
Resolved == [document \in UserInputs |-> parse_document(document)]

Docs == { Resolved[document] : document \in UserInputs }

Formats == {"Html", "Text"}

\* A content is a sequence of tokens: markup tags and words.
Tags == {"<p>", "</p>"}

TextBodies == { <<"a">>, <<"b">> }

HtmlBodies == { <<"<p>", "b", "</p>">> }

Bodies(format) == IF format = "Html" THEN HtmlBodies ELSE TextBodies

Titles == {"t1", "t2"}

\* The titles the index returns.
IndexTitles == {"t1"}

Times == {"T0"}

CacheMetadata == [title : Titles, cached_at : Times]

(***************************************************************************)
(* The cache directory. cache_dir.exists: the root directory exists;       *)
(* cache_dir.documents: <root>/documents exists; cache_dir.files maps each *)
(* file name of <root>/documents to its content.                           *)
(***************************************************************************)
\* The file-system calls that may fail in one behaviour.
MaxIoErrors == 1

\* A write or a delete may fail while failures are left.
faulty == io_errors < MaxIoErrors

NoFiles == [p \in {} |-> << >>]

exists(fs, path) == path \in DOMAIN fs

WriteFile(fs, path, content) ==
    [p \in DOMAIN fs \cup {path} |-> IF p = path THEN content ELSE fs[p]]

DeleteFile(fs, path) == [p \in DOMAIN fs \ {path} |-> fs[p]]

Restrict(fs, S) == [p \in S |-> fs[p]]

Ok(v) == [ok |-> TRUE, val |-> <<v>>]

Err == [ok |-> FALSE, val |-> << >>]

\* Result::ok
ok(r) == IF r.ok THEN Some(r.val[1]) ELSE None

\* fs::read_to_string: an error for a missing file.
read_to_string(fs, path) == IF exists(fs, path) THEN Ok(fs[path]) ELSE Err

\* fs::write creates or truncates the file, then writes the content: when it
\* fails the file is as it was or is left truncated.
fs_write(fs, path, content) ==
    { [ok |-> TRUE, files |-> WriteFile(fs, path, content)] }
    \cup (IF faulty
          THEN { [ok |-> FALSE, files |-> fs],
                 [ok |-> FALSE, files |-> WriteFile(fs, path, << >>)] }
          ELSE {})

\* Format::extension
extension(format) ==
    IF format = "Html" THEN <<"h", "t", "m", "l">> ELSE <<"t", "x", "t">>

\* document_path with the extension of one format for both.
document_path_OneExtension(doc, format) ==
    name(doc) \o <<".">> \o extension("Text")

\* CacheManager::document_path, below <root>/documents
document_path(doc, format) == name(doc) \o <<".">> \o extension(format)

\* metadata_path with one file for the metadata of every identifier.
metadata_path_Shared(doc) == <<"c", "a", "c", "h", "e", ".", "m", "e", "t", "a">>

\* CacheManager::metadata_path, below <root>/documents
metadata_path(doc) == name(doc) \o <<".", "m", "e", "t", "a">>

RECURSIVE LastDot(_, _)
\* The index of the last "." of s at or before i, 0 if there is none.
LastDot(s, i) ==
    IF i = 0 THEN 0 ELSE IF s[i] = "." THEN i ELSE LastDot(s, i - 1)

\* Path::file_stem: the file name up to its last ".", the whole name when it
\* has no "." or only a leading one.
file_stem(file) ==
    LET i == LastDot(file, Len(file))
    IN  IF i <= 1 THEN file ELSE SubSeq(file, 1, i - 1)

\* serde_json::to_string_pretty of a CacheMetadata
to_string_pretty(meta) ==
    <<"{", "title", ":", meta.title, ",", "cached_at", ":", meta.cached_at, "}">>

\* serde_json::from_str::<CacheMetadata>
from_str(content) ==
    IF /\ Len(content) = 9
       /\ content[1] = "{" /\ content[2] = "title" /\ content[3] = ":"
       /\ content[5] = "," /\ content[6] = "cached_at" /\ content[7] = ":"
       /\ content[9] = "}"
    THEN Ok([title |-> content[4], cached_at |-> content[8]])
    ELSE Err

(***************************************************************************)
(* CacheManager (src/src/cache/storage.rs). A method that can fail or      *)
(* that changes the directory is the set of ways it can end: whether it    *)
(* returned Ok, the value returned, and the directory it leaves.           *)
(***************************************************************************)
End(isOk, ret, dir) == [ok |-> isOk, ret |-> ret, dir |-> dir]

\* CacheManager::get_document
get_document(dir, doc, format) ==
    ok(read_to_string(dir.files, document_path(doc, format)))

\* get_metadata falling back to an empty CacheMetadata when the file does
\* not deserialize.
get_metadata_OrDefault(dir, doc) ==
    LET read == read_to_string(dir.files, metadata_path(doc))
    IN  IF ~read.ok THEN None
        ELSE IF from_str(read.val[1]).ok THEN ok(from_str(read.val[1]))
        ELSE Some([title |-> "", cached_at |-> ""])

\* CacheManager::get_metadata
get_metadata(dir, doc) ==
    LET content == ok(read_to_string(dir.files, metadata_path(doc)))
    IN  IF IsSome(content) THEN ok(from_str(Unwrap(content))) ELSE None

\* fs::create_dir_all(<root>/documents), then fs::write(path, content)
WriteUnderDocuments(dir, path, content) ==
    (IF faulty THEN { End(FALSE, << >>, dir) } ELSE {})
    \cup { End(w.ok, << >>,
               [exists |-> TRUE, documents |-> TRUE, files |-> w.files]) :
           w \in fs_write(dir.files, path, content) }

\* CacheManager::store_document
store_document(dir, doc, format, content) ==
    WriteUnderDocuments(dir, document_path(doc, format), content)

\* CacheManager::store_metadata
store_metadata(dir, doc, meta) ==
    WriteUnderDocuments(dir, metadata_path(doc), to_string_pretty(meta))

\* remove counting the metadata file as content in its return value.
remove_CountsMetadata(dir, doc) ==
    LET mine == { document_path(doc, "Html"), document_path(doc, "Text"),
                  metadata_path(doc) }
        removed == mine \cap DOMAIN dir.files # {}
    IN  { End(TRUE, <<removed>>,
              [dir EXCEPT !.files = Restrict(dir.files, DOMAIN dir.files \ mine)]) }

\* remove calling remove_file without the exists() checks: the first file
\* that is missing makes the call fail.
remove_Unchecked(dir, doc) ==
    LET mine == { document_path(doc, "Html"), document_path(doc, "Text"),
                  metadata_path(doc) }
    IN  IF mine \subseteq DOMAIN dir.files
        THEN { End(TRUE, <<TRUE>>,
                   [dir EXCEPT !.files =
                        Restrict(dir.files, DOMAIN dir.files \ mine)]) }
        ELSE { End(FALSE, << >>, dir) }

\* CacheManager::remove. Each remove_file of a file that exists can fail,
\* which ends the call there.
remove(dir, doc) ==
    LET fs == dir.files
        html_path == document_path(doc, "Html")
        text_path == document_path(doc, "Text")
        meta_path == metadata_path(doc)
        afterHtml == IF exists(fs, html_path)
                     THEN DeleteFile(fs, html_path) ELSE fs
        afterText == IF exists(afterHtml, text_path)
                     THEN DeleteFile(afterHtml, text_path) ELSE afterHtml
        afterMeta == IF exists(afterText, meta_path)
                     THEN DeleteFile(afterText, meta_path) ELSE afterText
        removed == exists(fs, html_path) \/ exists(afterHtml, text_path)
        Left(f) == [dir EXCEPT !.files = f]
    IN  { End(TRUE, <<removed>>, Left(afterMeta)) }
        \cup (IF faulty /\ exists(fs, html_path)
              THEN { End(FALSE, << >>, Left(fs)) } ELSE {})
        \cup (IF faulty /\ exists(afterHtml, text_path)
              THEN { End(FALSE, << >>, Left(afterHtml)) } ELSE {})
        \cup (IF faulty /\ exists(afterText, meta_path)
              THEN { End(FALSE, << >>, Left(afterText)) } ELSE {})

\* CacheManager::clear_cache
clear_cache(dir) ==
    IF dir.exists
    THEN { End(TRUE, << >>,
               [exists |-> TRUE, documents |-> FALSE, files |-> NoFiles]) }
         \cup (IF faulty
               THEN \* remove_dir_all fails part way: any files may be left
                    { End(FALSE, << >>,
                          [exists |-> TRUE, documents |-> dir.documents,
                           files |-> Restrict(dir.files, S)]) :
                      S \in SUBSET (DOMAIN dir.files) }
                    \cup
                    \* the root is removed and create_dir_all fails
                    { End(FALSE, << >>,
                          [exists |-> FALSE, documents |-> FALSE,
                           files |-> NoFiles]) }
               ELSE {})
    ELSE { End(TRUE, << >>, dir) }

RECURSIVE Orders(_)
\* fs::read_dir yields the entries of a directory in no particular order.
Orders(S) ==
    IF S = {} THEN { << >> }
    ELSE UNION { { <<x>> \o rest : rest \in Orders(S \ {x}) } : x \in S }

Member(seq, x) == \E i \in 1..Len(seq) : seq[i] = x

\* A file below <root>/documents that is not the cache's: notes.txt.
ForeignFile == <<"n", "o", "t", "e", "s", ".", "t", "x", "t">>

\* The file names the operations can create below <root>/documents, and the
\* foreign one.
CacheFiles ==
    { document_path(doc, format) : doc \in Docs, format \in Formats }
    \cup { metadata_path(doc) : doc \in Docs }
    \cup { ForeignFile }

\* What list_cached makes of each entry: DocumentType::parse of its stem.
EntryType == [file \in CacheFiles |-> parse(file_stem(file))]

RECURSIVE list_loop_StopsAtUnparsed(_, _)
\* The loop of list_cached ending at the first entry that does not parse.
list_loop_StopsAtUnparsed(entries, documents) ==
    IF entries = << >> THEN documents
    ELSE LET doc_type == EntryType[Head(entries)]
         IN  IF doc_type = None THEN documents
             ELSE list_loop_StopsAtUnparsed(
                      Tail(entries),
                      IF ~Member(documents, Unwrap(doc_type))
                      THEN Append(documents, Unwrap(doc_type))
                      ELSE documents)

RECURSIVE list_loop(_, _)
\* The loop of list_cached over the directory entries.
list_loop(entries, documents) ==
    IF entries = << >> THEN documents
    ELSE LET doc_type == EntryType[Head(entries)]
         IN  list_loop(Tail(entries),
                       IF IsSome(doc_type) /\ ~Member(documents, Unwrap(doc_type))
                       THEN Append(documents, Unwrap(doc_type))
                       ELSE documents)

\* The orders in which read_dir can yield the entries of each directory, one
\* order for each outcome of the loop of list_cached; a table built once.
ReadDir ==
    [S \in SUBSET CacheFiles |->
        LET listings == { list_loop(entries, << >>) : entries \in Orders(S) }
        IN  { CHOOSE entries \in Orders(S) :
                  list_loop(entries, << >>) = listing : listing \in listings }]
    @@ << >>

\* CacheManager::list_cached, with the entries as read_dir yields them
list_cached(dir, entries) ==
    IF ~dir.documents THEN << >> ELSE list_loop(entries, << >>)

\* CacheManager::list_cached_with_metadata
list_cached_with_metadata(dir, entries) ==
    LET listed == list_cached(dir, entries)
    IN  [i \in 1..Len(listed) |->
            [doc_type |-> listed[i], metadata |-> get_metadata(dir, listed[i])]]

(***************************************************************************)
(* The fetch pipeline (src/src/main.rs). The fetcher, the index and the    *)
(* text extraction are collaborators: each call can end in any of the ways *)
(* its contract allows. A run of the pipeline is the set of ways it can    *)
(* end: its result, the directory it leaves, how many times it called the  *)
(* fetcher and the index, and what the fetcher returned.                   *)
(***************************************************************************)
\* DocumentFetcher::fetch: an error, or a content with its format.
fetch(doc_type) ==
    { Err } \cup
    UNION { { Ok([content |-> content, format |-> format]) :
              content \in Bodies(format) } : format \in Formats }

\* DataTrackerClient::new: building the HTTP client can fail.
DataTrackerClient_new == { Ok("client"), Err }

\* DataTrackerClient::get_document: an error, or the document's record.
datatracker_get_document(doc_name) ==
    { Err } \cup { Ok([title |-> title]) : title \in IndexTitles }

\* chrono::Utc::now
Utc_now == Times

\* html2text::from_read: the content without its markup, or an error.
from_read(html) ==
    { Ok(SelectSeq(html, LAMBDA token : token \notin Tags)), Err }

\* html_to_text keeping the raw HTML whatever the conversion gives.
html_to_text_Raw(html) ==
    { [text |-> html, extracted |-> ok(r)] : r \in from_read(html) }

\* html_to_text: the raw HTML when the conversion fails.
html_to_text(html) ==
    { [text |-> IF r.ok THEN r.val[1] ELSE html, extracted |-> ok(r)] :
      r \in from_read(html) }

\* One call made during a run, and whether it returned Ok.
Call(callee, isOk) == <<callee, isOk>>

Run(isOk, ret, dir, calls, fetched, failed) ==
    [ok |-> isOk, ret |-> ret, dir |-> dir, calls |-> calls,
     fetched |-> fetched, io_errors |-> failed]

\* fetch_and_store_metadata
fetch_and_store_metadata(dir, doc_type) ==
    UNION { IF ~client.ok
            THEN { Run(FALSE, << >>, dir,
                       <<Call("DataTrackerClient::new", FALSE)>>, None, 0) }
            ELSE UNION {
                IF ~doc.ok
                THEN { Run(FALSE, << >>, dir,
                           <<Call("DataTrackerClient::new", TRUE),
                             Call("get_document", FALSE)>>, None, 0) }
                ELSE UNION {
                    { Run(e.ok, << >>, e.dir,
                          <<Call("DataTrackerClient::new", TRUE),
                            Call("get_document", TRUE),
                            Call("store_metadata", e.ok)>>,
                          None, IF e.ok THEN 0 ELSE 1) :
                      e \in store_metadata(dir, doc_type,
                                [title |-> doc.val[1].title,
                                 cached_at |-> now]) } :
                    now \in Utc_now } :
                doc \in datatracker_get_document(name(doc_type)) } :
            client \in DataTrackerClient_new }

\* fetch_and_cache with the metadata step's error returned to the caller.
CacheText_MetadataFatal(dir, doc_type, text, fetched) ==
    UNION { IF ~e.ok
            THEN { Run(FALSE, << >>, e.dir,
                       <<Call("fetch", TRUE), Call("store_document", FALSE)>>,
                       fetched, 1) }
            ELSE { Run(m.ok, IF m.ok THEN <<text>> ELSE << >>, m.dir,
                       <<Call("fetch", TRUE), Call("store_document", TRUE)>>
                           \o m.calls,
                       fetched, m.io_errors) :
                   m \in fetch_and_store_metadata(e.dir, doc_type) } :
            e \in store_document(dir, doc_type, "Text", text) }

\* fetch_and_cache, from the text to cache on
CacheText(dir, doc_type, text, fetched) ==
    UNION { IF ~e.ok
            THEN { Run(FALSE, << >>, e.dir,
                       <<Call("fetch", TRUE), Call("store_document", FALSE)>>,
                       fetched, 1) }
            ELSE { Run(TRUE, <<text>>, m.dir,
                       <<Call("fetch", TRUE), Call("store_document", TRUE)>>
                           \o m.calls,
                       fetched, m.io_errors) :
                   m \in fetch_and_store_metadata(e.dir, doc_type) } :
            e \in store_document(dir, doc_type, "Text", text) }

\* fetch_and_cache caching an empty text when the fetch fails.
fetch_and_cache_CachesOnFailure(dir, doc_type) ==
    UNION { IF ~r.ok
            THEN { Run(FALSE, << >>, e.dir,
                       <<Call("fetch", FALSE), Call("store_document", e.ok)>>,
                       None, IF e.ok THEN 0 ELSE 1) :
                   e \in store_document(dir, doc_type, "Text", << >>) }
            ELSE CacheText(dir, doc_type, r.val[1].content,
                           Some([content |-> r.val[1].content,
                                 format |-> r.val[1].format,
                                 extracted |-> None])) :
            r \in fetch(doc_type) }

\* fetch_and_cache
fetch_and_cache(dir, doc_type) ==
    UNION { IF ~r.ok
            THEN { Run(FALSE, << >>, dir, <<Call("fetch", FALSE)>>, None, 0) }
            ELSE LET content == r.val[1].content
                     format == r.val[1].format
                 IN  IF format = "Text"
                     THEN CacheText(dir, doc_type, content,
                                    Some([content |-> content,
                                          format |-> format,
                                          extracted |-> None]))
                     ELSE UNION {
                         CacheText(dir, doc_type, t.text,
                                   Some([content |-> content,
                                         format |-> format,
                                         extracted |-> t.extracted])) :
                         t \in html_to_text(content) } :
            r \in fetch(doc_type) }

\* CacheManager::new: create_dir_all of the root directory.
CacheManager_new(dir) ==
    { End(TRUE, << >>, [dir EXCEPT !.exists = TRUE]) }
    \cup (IF faulty THEN { End(FALSE, << >>, dir) } ELSE {})

\* DocumentFetcher::new: building the HTTP client can fail.
DocumentFetcher_new == { Ok("fetcher"), Err }

\* The two constructions that open view_document and fetch_only_document:
\* CacheManager::new()?, then DocumentFetcher::new()?.
Constructed(dir) ==
    UNION { IF ~cache.ok
            THEN { Run(FALSE, << >>, cache.dir,
                       <<Call("CacheManager::new", FALSE)>>, None, 1) }
            ELSE { Run(rfc_editor.ok, << >>, cache.dir,
                       <<Call("CacheManager::new", TRUE),
                         Call("DocumentFetcher::new", rfc_editor.ok)>>,
                       None, 0) :
                   rfc_editor \in DocumentFetcher_new } :
            cache \in CacheManager_new(dir) }

\* The runs that go on after the calls of first.
After(first, runs) ==
    { [run EXCEPT !.calls = first.calls \o @] : run \in runs }

\* view_document consulting the cache whatever refresh says.
cached_or_fetched_IgnoresRefresh(dir, doc_type, refresh) ==
    LET cached == get_document(dir, doc_type, "Text")
    IN  IF IsSome(cached)
        THEN { Run(TRUE, cached, dir, << >>, None, 0) }
        ELSE fetch_and_cache(dir, doc_type)

\* view_document: the cached text unless refresh is asked for or there is
\* none, else fetch_and_cache.
cached_or_fetched(dir, doc_type, refresh) ==
    LET cached == get_document(dir, doc_type, "Text")
    IN  IF ~refresh /\ IsSome(cached)
        THEN { Run(TRUE, cached, dir, << >>, None, 0) }
        ELSE fetch_and_cache(dir, doc_type)

\* open_in_viewer: spawning the viewer can fail; the cache is not touched.
open_in_viewer(content) == { Ok("shown"), Err }

\* view_document. ret is the content handed to open_in_viewer.
view_document(dir, document, refresh) ==
    LET Show(run) ==
            IF ~run.ok THEN { run }
            ELSE { [run EXCEPT
                       !.ok = shown.ok,
                       !.calls = @ \o <<Call("open_in_viewer", shown.ok)>>] :
                   shown \in open_in_viewer(Unwrap(run.ret)) }
    IN  UNION { IF ~made.ok THEN { made }
                ELSE UNION { Show(run) :
                             run \in After(made,
                                           cached_or_fetched(made.dir,
                                               Resolved[document], refresh)) } :
                made \in Constructed(dir) }

\* fetch_only_document
fetch_only_document(dir, document) ==
    UNION { IF ~made.ok THEN { made }
            ELSE After(made, fetch_and_cache(made.dir, Resolved[document])) :
            made \in Constructed(dir) }

\* uncache_document
uncache_document(dir, document) ==
    UNION { IF ~cache.ok THEN { cache }
            ELSE remove(cache.dir, Resolved[document]) :
            cache \in CacheManager_new(dir) }

\* clear_cache of main.rs
main_clear_cache(dir) ==
    UNION { IF ~cache.ok THEN { cache } ELSE clear_cache(cache.dir) :
            cache \in CacheManager_new(dir) }

(***************************************************************************)
(* The operations on a CacheManager.                                       *)
(***************************************************************************)
Returned(op, args, isOk, ret) ==
    [op |-> op, args |-> args, ok |-> isOk, ret |-> ret,
     calls |-> << >>, fetched |-> None]

\* CacheManager::with_dir / CacheManager::new: the root directory is created.
NewCache == [exists |-> TRUE, documents |-> FALSE, files |-> NoFiles]

Init ==
    /\ running = << >>
    /\ cache_dir = NewCache
    /\ io_errors = 0
    /\ last = Returned("new", << >>, TRUE, << >>)

StoreDocument(doc, format, content) ==
    \E e \in store_document(cache_dir, doc, format, content) :
        /\ cache_dir' = e.dir
        /\ last' = Returned("store_document", <<doc, format, content>>,
                            e.ok, e.ret)
        /\ io_errors' = io_errors + (IF e.ok THEN 0 ELSE 1)
        /\ UNCHANGED running

StoreMetadata(doc, meta) ==
    \E e \in store_metadata(cache_dir, doc, meta) :
        /\ cache_dir' = e.dir
        /\ last' = Returned("store_metadata", <<doc, meta>>, e.ok, e.ret)
        /\ io_errors' = io_errors + (IF e.ok THEN 0 ELSE 1)
        /\ UNCHANGED running

Remove(doc) ==
    \E e \in remove(cache_dir, doc) :
        /\ cache_dir' = e.dir
        /\ last' = Returned("remove", <<doc>>, e.ok, e.ret)
        /\ io_errors' = io_errors + (IF e.ok THEN 0 ELSE 1)
        /\ UNCHANGED running

ClearCache ==
    \E e \in clear_cache(cache_dir) :
        /\ cache_dir' = e.dir
        /\ last' = Returned("clear_cache", << >>, e.ok, e.ret)
        /\ io_errors' = io_errors + (IF e.ok THEN 0 ELSE 1)
        /\ UNCHANGED running

GetDocument(doc, format) ==
    /\ last' = Returned("get_document", <<doc, format>>, TRUE,
                        get_document(cache_dir, doc, format))
    /\ UNCHANGED <<cache_dir, io_errors, running>>

GetMetadata(doc) ==
    /\ last' = Returned("get_metadata", <<doc>>, TRUE,
                        get_metadata(cache_dir, doc))
    /\ UNCHANGED <<cache_dir, io_errors, running>>

\* CacheManager::list_cached_with_metadata, read_dir yielding the entries in
\* any order.
ListCache ==
    \E entries \in ReadDir[DOMAIN cache_dir.files] :
        /\ last' = Returned("list_cached_with_metadata", << >>, TRUE,
                            list_cached_with_metadata(cache_dir, entries))
        /\ UNCHANGED <<cache_dir, io_errors, running>>

CacheNext ==
    \/ \E doc \in Docs, format \in Formats :
          \E content \in Bodies(format) : StoreDocument(doc, format, content)
    \/ \E doc \in Docs, meta \in CacheMetadata : StoreMetadata(doc, meta)
    \/ \E doc \in Docs : Remove(doc)
    \/ ClearCache
    \/ \E doc \in Docs, format \in Formats : GetDocument(doc, format)
    \/ \E doc \in Docs : GetMetadata(doc)

\* The cache store on a file system whose writes and deletes may fail.
Spec == Init /\ [][CacheNext]_vars

Ran(op, args, run) ==
    [op |-> op, args |-> args, ok |-> run.ok, ret |-> run.ret,
     calls |-> run.calls, fetched |-> run.fetched]

ViewDocument(document, refresh) ==
    \E run \in view_document(cache_dir, document, refresh) :
        /\ cache_dir' = run.dir
        /\ last' = Ran("view_document", <<document, refresh>>, run)
        /\ io_errors' = io_errors + run.io_errors
        /\ UNCHANGED running

FetchOnlyDocument(document) ==
    \E run \in fetch_only_document(cache_dir, document) :
        /\ cache_dir' = run.dir
        /\ last' = Ran("fetch_only_document", <<document>>, run)
        /\ io_errors' = io_errors + run.io_errors
        /\ UNCHANGED running

UncacheDocument(document) ==
    \E e \in uncache_document(cache_dir, document) :
        /\ cache_dir' = e.dir
        /\ last' = Returned("uncache_document", <<document>>, e.ok, e.ret)
        /\ io_errors' = io_errors + (IF e.ok THEN 0 ELSE 1)
        /\ UNCHANGED running

MainClearCache ==
    \E e \in main_clear_cache(cache_dir) :
        /\ cache_dir' = e.dir
        /\ last' = Returned("main_clear_cache", << >>, e.ok, e.ret)
        /\ io_errors' = io_errors + (IF e.ok THEN 0 ELSE 1)
        /\ UNCHANGED running

CliNext ==
    \/ \E document \in UserInputs, refresh \in BOOLEAN :
          ViewDocument(document, refresh)
    \/ \E document \in UserInputs : FetchOnlyDocument(document)
    \/ \E document \in UserInputs : UncacheDocument(document)
    \/ MainClearCache

\* The commands of the program, run one after another.
SpecCli == Init /\ [][CliNext]_vars

\* A new cache on a file system that has no failure left.
\* A cache directory into whose documents directory a foreign file was put.
ForeignCache ==
    [exists |-> TRUE, documents |-> TRUE,
     files |-> WriteFile(NoFiles, ForeignFile, <<"a">>)]

InitList ==
    /\ running = << >>
    /\ cache_dir \in {NewCache, ForeignCache}
    /\ io_errors = MaxIoErrors
    /\ last = Returned("new", << >>, TRUE, << >>)

ListNext == CacheNext \/ ListCache

\* The cache store and its listing, on a file system that does not fail.
SpecList == InitList /\ [][ListNext]_vars

(***************************************************************************)
(* Two invocations on one cache directory: a store_document that runs step *)
(* by step (create_dir_all, then fs::write, which creates or truncates the *)
(* file and writes the content piece by piece) while get_document reads.   *)
(***************************************************************************)
\* An invocation in flight: its operation, its arguments, the step it is at,
\* and what get_document gave for its entry when it began.
Invocation(op, args, pc, before) ==
    [op |-> op, args |-> args, pc |-> pc, before |-> before]

\* The file an invocation of store_document writes.
PathOf(invocation) == document_path(invocation.args[1], invocation.args[2])

InitRace ==
    /\ running = << >>
    /\ cache_dir = NewCache
    /\ io_errors = MaxIoErrors
    /\ last = Returned("new", << >>, TRUE, << >>)

\* store_document is called: the documents directory is created.
StoreDocumentCall(doc, format, content) ==
    /\ running = << >>
    /\ cache_dir' = [cache_dir EXCEPT !.exists = TRUE, !.documents = TRUE]
    /\ running' = <<Invocation("store_document", <<doc, format, content>>,
                               "File::create",
                               get_document(cache_dir, doc, format))>>
    /\ UNCHANGED <<io_errors, last>>

\* fs::write opens the file: it is created, or truncated if it exists.
FileCreate ==
    /\ running # << >>
    /\ running[1].pc = "File::create"
    /\ cache_dir' = [cache_dir EXCEPT
                         !.files = WriteFile(@, PathOf(running[1]), << >>)]
    /\ running' = <<[running[1] EXCEPT !.pc = "write_all"]>>
    /\ UNCHANGED <<io_errors, last>>

\* fs::write writes the next piece of the content; after the last piece
\* store_document returns.
WriteAll ==
    /\ running # << >>
    /\ running[1].pc = "write_all"
    /\ LET content == running[1].args[3]
           written == Len(cache_dir.files[PathOf(running[1])])
       IN  /\ cache_dir' = [cache_dir EXCEPT
                                !.files = WriteFile(@, PathOf(running[1]),
                                                    SubSeq(content, 1,
                                                           written + 1))]
           /\ IF written + 1 < Len(content)
              THEN UNCHANGED <<running, last>>
              ELSE /\ running' = << >>
                   /\ last' = Returned("store_document", running[1].args,
                                       TRUE, << >>)
    /\ UNCHANGED io_errors

RaceNext ==
    \/ \E doc \in Docs, format \in Formats :
           \E content \in Bodies(format) :
               StoreDocumentCall(doc, format, content)
    \/ FileCreate
    \/ WriteAll
    \/ \E doc \in Docs, format \in Formats : GetDocument(doc, format)

\* A store_document and the get_document calls of another invocation,
\* interleaved.
SpecRace == InitRace /\ [][RaceNext]_vars

(***************************************************************************)
(* Several invocations of remove on one cache directory, each running step *)
(* by step: for the HTML file, the text file and the metadata file in turn *)
(* path.exists(), then fs::remove_file(path) when it answered true. The    *)
(* file system has no failure left: remove_file fails only for a file that *)
(* is not there.                                                           *)
(***************************************************************************)
MaxRunning == 2

\* The paths remove goes through, in its order.
RemovePaths == <<"html_path", "text_path", "meta_path">>

\* An invocation of remove in flight: the identifier, the path it is at
\* (an index of RemovePaths), the call it makes next on it, and its local
\* `removed`.
Removing(doc, path, pc, removed) ==
    [op |-> "remove", args |-> <<doc>>, path |-> path, pc |-> pc,
     removed |-> removed]

\* remove: html_path, text_path, meta_path of the invocation's identifier.
RemovePath(invocation) ==
    CASE RemovePaths[invocation.path] = "html_path" ->
             document_path(invocation.args[1], "Html")
      [] RemovePaths[invocation.path] = "text_path" ->
             document_path(invocation.args[1], "Text")
      [] OTHER -> metadata_path(invocation.args[1])

\* running without its i-th invocation.
Without(i) == SubSeq(running, 1, i - 1) \o SubSeq(running, i + 1, Len(running))

\* The i-th invocation is done with the path it is at: it goes on to the
\* next path, or returns Ok(removed) after the last.
Advance(i, removed) ==
    IF running[i].path < Len(RemovePaths)
    THEN /\ running' = [running EXCEPT ![i] =
                            Removing(@.args[1], @.path + 1, "exists", removed)]
         /\ UNCHANGED last
    ELSE /\ running' = Without(i)
         /\ last' = Returned("remove", running[i].args, TRUE, <<removed>>)

InitRemove ==
    /\ running = << >>
    /\ cache_dir = NewCache
    /\ io_errors = MaxIoErrors
    /\ last = Returned("new", << >>, TRUE, << >>)

\* remove is called: `let mut removed = false`.
RemoveCall(doc) ==
    /\ Len(running) < MaxRunning
    /\ running' = Append(running, Removing(doc, 1, "exists", FALSE))
    /\ UNCHANGED <<cache_dir, io_errors, last>>

\* if path.exists() { .. }: the invocation goes on to remove_file, or past
\* the path when the file is not there.
PathExists(i) ==
    /\ i \in DOMAIN running
    /\ running[i].pc = "exists"
    /\ IF exists(cache_dir.files, RemovePath(running[i]))
       THEN /\ running' = [running EXCEPT ![i].pc = "remove_file"]
            /\ UNCHANGED last
       ELSE Advance(i, running[i].removed)
    /\ UNCHANGED <<cache_dir, io_errors>>

\* fs::remove_file(&path).context(..)?: the file is deleted and, for a
\* content file, removed = true; a file that is no longer there is an error,
\* with which remove returns.
RemoveFile(i) ==
    /\ i \in DOMAIN running
    /\ running[i].pc = "remove_file"
    /\ IF exists(cache_dir.files, RemovePath(running[i]))
       THEN /\ cache_dir' = [cache_dir EXCEPT
                                 !.files = DeleteFile(@, RemovePath(running[i]))]
            /\ Advance(i, running[i].removed
                          \/ RemovePaths[running[i].path] # "meta_path")
       ELSE /\ running' = Without(i)
            /\ last' = Returned("remove", running[i].args, FALSE, << >>)
            /\ UNCHANGED cache_dir
    /\ UNCHANGED io_errors

RemoveRaceNext ==
    \/ \E doc \in Docs, format \in Formats :
           \E content \in Bodies(format) :
               running = << >> /\ StoreDocument(doc, format, content)
    \/ \E doc \in Docs, meta \in CacheMetadata :
           running = << >> /\ StoreMetadata(doc, meta)
    \/ \E doc \in Docs : RemoveCall(doc)
    \/ \E i \in 1..MaxRunning : PathExists(i)
    \/ \E i \in 1..MaxRunning : RemoveFile(i)

\* Documents are stored, then invocations of remove run interleaved.
SpecRemoveRace == InitRemove /\ [][RemoveRaceNext]_vars

(***************************************************************************)
(* The search client (src/src/api/datatracker.rs): the index answers a     *)
(* query with records, of which search keeps the RFCs and drafts.          *)
(***************************************************************************)
MaxRecords == 4

MaxLimit == 2

\* limit.saturating_mul(5): the factor by which search asks for more.
OverFetch == 5

\* The names of the index's records: RFCs, an RFC number written with a
\* leading zero, a draft, and two records of other types, one of which has a
\* name that starts with rfc.
ApiNames ==
    { <<"r", "f", "c", "1">>, <<"r", "f", "c", "1", "0">>,
      <<"r", "f", "c", "0", "1">>, <<"r", "f", "c", "-", "a">>,
      <<"d", "r", "a", "f", "t", "-", "a">>,
      <<"s", "l", "i", "d", "e", "s", "-", "a">> }

\* ApiDocument: the fields search looks at or copies.
ApiDocument == [name : ApiNames, title : IndexTitles]

RECURSIVE RecordSeqs(_)
RecordSeqs(n) ==
    IF n = 0 THEN { << >> }
    ELSE LET shorter == RecordSeqs(n - 1)
         IN  shorter \cup { objects \o <<doc>> :
                                objects \in shorter, doc \in ApiDocument }

\* SearchResponse: what the index can answer.
SearchResponse ==
    [meta : [next : {None, Some("next")}], objects : RecordSeqs(MaxRecords)]

SearchFilter == {"RfcsOnly", "DraftsOnly", "Both"}

Queries == {"bgp"}

\* SearchFilter::api_param
api_param(filter) ==
    CASE filter = "RfcsOnly" -> Some("rfc")
      [] filter = "DraftsOnly" -> Some("draft")
      [] OTHER -> None

\* DataTrackerClient::convert_api_document
convert_api_document(doc) ==
    [name |-> doc.name, title |-> doc.title,
     doc_type |-> parse_doc_type(doc.name)]

RECURSIVE documents_TakeThenFilter(_, _)
\* The documents of a search taken before they are filtered.
documents_TakeThenFilter(objects, limit) ==
    IF limit = 0 \/ objects = << >> THEN << >>
    ELSE IF is_rfc_or_draft(Head(objects).name)
    THEN <<convert_api_document(Head(objects))>>
         \o documents_TakeThenFilter(Tail(objects), limit - 1)
    ELSE documents_TakeThenFilter(Tail(objects), limit - 1)

RECURSIVE documents(_, _)
\* search: objects.into_iter().filter(..).map(..).take(limit).collect()
documents(objects, limit) ==
    IF limit = 0 \/ objects = << >> THEN << >>
    ELSE IF is_rfc_or_draft(Head(objects).name)
    THEN <<convert_api_document(Head(objects))>>
         \o documents(Tail(objects), limit - 1)
    ELSE documents(Tail(objects), limit)

\* Unsigned integers of the program's widths are kept as their 16-bit limbs,
\* lowest first: two limbs for a u32, four for a usize.
U32Max == <<65535, 65535>>

RECURSIVE AddLimbs(_, _)
\* n + carry, in the width of n.
AddLimbs(n, carry) ==
    IF n = << >> THEN << >>
    ELSE LET sum == Head(n) + carry
         IN  <<sum % 65536>> \o AddLimbs(Tail(n), sum \div 65536)

RECURSIVE LimbsValue(_)
\* The number a limb sequence stands for, when the model checker has it.
LimbsValue(n) ==
    IF n = << >> THEN 0 ELSE Head(n) + 65536 * LimbsValue(Tail(n))

\* `limit as u32` (src/src/main.rs): the low 32 bits of a usize.
as_u32(limit) == SubSeq(limit, 1, 2)

\* u32::saturating_mul by a small factor.
saturating_mul(a, factor) ==
    LET low == a[1] * factor
        high == a[2] * factor + low \div 65536
    IN  IF high >= 65536 THEN U32Max ELSE <<low % 65536, high>>

\* search: let api_limit = limit.saturating_mul(5)
api_limit(limit) == saturating_mul(limit, OverFetch)

\* The request search sends.
search_url(query, filter, limit) ==
    [query |-> query,
     limit |-> LimbsValue(api_limit(<<limit % 65536, limit \div 65536>>)),
     type |-> api_param(filter)]

\* client.get(url).send(), response.status() and response.json(): the request
\* is not sent, or is answered with a failure status, or with a body that is
\* not a SearchResponse, or with the index's answer.
send(url, search_response) ==
    { Err, Ok([success |-> FALSE, json |-> Err]),
      Ok([success |-> FALSE, json |-> Ok(search_response)]),
      Ok([success |-> TRUE, json |-> Err]),
      Ok([success |-> TRUE, json |-> Ok(search_response)]) }

\* search: has_more set by the cursor alone.
has_more_CursorOnly(next, returned_count, limit) == IsSome(next)

\* search: has_more
has_more(next, returned_count, limit) ==
    IsSome(next) \/ returned_count = limit

\* How a search ended, with the request it sent and the response it got.
Searching(result, url, response) ==
    [ok |-> result.ok, val |-> result.val, url |-> url, response |-> response]

\* DataTrackerClient::search reading the body of a response whatever its
\* status.
search_IgnoresStatus(search_response, query, filter, limit) ==
    { Searching(IF ~response.ok THEN Err
                ELSE IF ~response.val[1].json.ok THEN Err
                ELSE LET answered == response.val[1].json.val[1]
                         found == documents(answered.objects, limit)
                     IN  Ok([documents |-> found,
                             has_more |-> has_more(answered.meta.next,
                                                   Len(found), limit),
                             query |-> query,
                             filter |-> filter]),
                search_url(query, filter, limit), response) :
      response \in send(search_url(query, filter, limit), search_response) }

\* DataTrackerClient::search
search(search_response, query, filter, limit) ==
    { Searching(IF ~response.ok THEN Err
                ELSE IF ~response.val[1].success THEN Err
                ELSE IF ~response.val[1].json.ok THEN Err
                ELSE LET answered == response.val[1].json.val[1]
                         found == documents(answered.objects, limit)
                     IN  Ok([documents |-> found,
                             has_more |-> has_more(answered.meta.next,
                                                   Len(found), limit),
                             query |-> query,
                             filter |-> filter]),
                search_url(query, filter, limit), response) :
      response \in send(search_url(query, filter, limit), search_response) }

InitSearch ==
    /\ running = << >>
    /\ cache_dir = NewCache
    /\ io_errors = MaxIoErrors
    /\ \E search_response \in SearchResponse :
           last = Returned("index", <<search_response>>, TRUE, None)

Search(query, filter, limit) ==
    /\ last.op = "index"
    /\ \E result \in search(last.args[1], query, filter, limit) :
           last' = [Returned("search", <<query, filter, limit, last.args[1]>>,
                             result.ok, result.val)
                        EXCEPT !.fetched = Some([url |-> result.url,
                                                 response |-> result.response])]
    /\ UNCHANGED <<cache_dir, io_errors, running>>

SearchNext ==
    \E query \in Queries, filter \in SearchFilter, limit \in 0..MaxLimit :
        Search(query, filter, limit)

SpecSearch == InitSearch /\ [][SearchNext]_vars

(***************************************************************************)
(* The limit of a search on its way from the command line to the request   *)
(* (src/src/main.rs, search_documents; src/src/api/datatracker.rs, search). *)
(***************************************************************************)
MaxOffset == 40

\* Limits around 0, around the largest u32 whose product with 5 is a u32
\* (858993459), and around the smallest usize that is not a u32
\* (4294967296).
LimitBases ==
    { <<0, 0, 0, 0>>, <<13097, 13107, 0, 0>>, <<65530, 65535, 0, 0>> }

CliLimits == { AddLimbs(base, offset) : base \in LimitBases, offset \in 0..MaxOffset }

InitLimit ==
    /\ running = << >>
    /\ cache_dir = NewCache
    /\ io_errors = MaxIoErrors
    /\ \E limit \in CliLimits : last = Returned("limit", <<limit>>, TRUE, None)

\* search_documents hands `limit as u32` to search, which asks the index for
\* api_limit records.
ApiLimit ==
    /\ last.op = "limit"
    /\ last' = Returned("api_limit", last.args, TRUE,
                        Some(api_limit(as_u32(last.args[1]))))
    /\ UNCHANGED <<cache_dir, io_errors, running>>

SpecLimit == InitLimit /\ [][ApiLimit]_vars

(***************************************************************************)
(* The identity functions on their own: a string is drawn, and parse,      *)
(* parse_document, parse_doc_type and display_name are applied to it.      *)
(***************************************************************************)
MaxTokens == 3

Tokens ==
    { <<" ">>, <<"r", "f", "c">>, <<"R", "F", "C">>,
      <<"d", "r", "a", "f", "t">>, <<"-">>, <<"+">>, <<"0">>, <<"1">>,
      <<"a">>, <<"A">>,
      <<"2", "1", "4", "7", "4", "8", "3", "6", "4", "7">>,
      <<"4", "2", "9", "4", "9", "6", "7", "2", "9", "6">> }

Pads == { << >>, <<" ">> }

RECURSIVE TokenStrings(_)
TokenStrings(n) ==
    IF n = 0 THEN { << >> }
    ELSE LET shorter == TokenStrings(n - 1)
         IN  shorter \cup { s \o t : s \in shorter, t \in Tokens }

ParseInputs ==
    { lead \o body \o trail :
          lead \in Pads, body \in TokenStrings(MaxTokens), trail \in Pads }

InitParse ==
    /\ running = << >>
    /\ cache_dir = NewCache
    /\ io_errors = MaxIoErrors
    /\ \E input \in ParseInputs : last = Returned("input", <<input>>, TRUE, None)

Parse ==
    /\ last.op = "input"
    /\ LET parsed == parse(last.args[1])
       IN  last' = Returned("parse", last.args, IsSome(parsed), parsed)
    /\ UNCHANGED <<cache_dir, io_errors, running>>

ParseDocument ==
    /\ last.op = "input"
    /\ last' = Returned("parse_document", last.args, TRUE,
                        parse_document(last.args[1]))
    /\ UNCHANGED <<cache_dir, io_errors, running>>

\* search converts the records that pass is_rfc_or_draft.
ParseDocType ==
    /\ last.op = "input"
    /\ is_rfc_or_draft(last.args[1])
    /\ last' = Returned("parse_doc_type", last.args, TRUE,
                        parse_doc_type(last.args[1]))
    /\ UNCHANGED <<cache_dir, io_errors, running>>

DisplayName ==
    /\ last.op = "parse"
    /\ IsSome(last.ret)
    /\ last' = Returned("display_name", <<Unwrap(last.ret)>>, TRUE,
                        display_name(Unwrap(last.ret)))
    /\ UNCHANGED <<cache_dir, io_errors, running>>

ParseNext == Parse \/ ParseDocument \/ ParseDocType \/ DisplayName

SpecParse == InitParse /\ [][ParseNext]_vars

(***************************************************************************)
(* The cache store's contracts.                                            *)
(***************************************************************************)
\* The three files an identifier can have in the cache.
FilesOf(doc) ==
    { document_path(doc, "Html"), document_path(doc, "Text"),
      metadata_path(doc) }

NothingCached(dir, doc) == FilesOf(doc) \cap DOMAIN dir.files = {}

\* C1: after store_document(id, f, c) succeeds, get_document(id, f) returns
\* exactly c, whatever (id, f) held before, and get_document of the other
\* format of id returns what it returned before the store.
C1_StoreThenGet ==
    [][ (last'.op = "store_document" /\ last'.ok) =>
            LET doc == last'.args[1]
                format == last'.args[2]
                content == last'.args[3]
            IN  /\ get_document(cache_dir', doc, format) = Some(content)
                /\ \A other \in Formats \ {format} :
                       get_document(cache_dir', doc, other)
                           = get_document(cache_dir, doc, other) ]_vars

\* C1 happens: a Text store succeeded and the Html entry is still absent.
C1_Witness ==
    /\ last.op = "store_document" /\ last.ok
    /\ last.args[2] = "Text"
    /\ get_document(cache_dir, last.args[1], "Text") = Some(last.args[3])
    /\ get_document(cache_dir, last.args[1], "Html") = None

\* C2: a remove(id) that returns, returns true exactly when an Html or a
\* Text file of id existed just before the call (a metadata file alone
\* gives false), and afterwards none of the three files of id exists.
C2_RemoveReturn ==
    [][ (last'.op = "remove" /\ last'.ok) =>
            LET doc == last'.args[1]
                hadContent ==
                    \/ exists(cache_dir.files, document_path(doc, "Html"))
                    \/ exists(cache_dir.files, document_path(doc, "Text"))
            IN  /\ last'.ret = <<hadContent>>
                /\ NothingCached(cache_dir', doc)
                /\ \A format \in Formats :
                       get_document(cache_dir', doc, format) = None
                /\ get_metadata(cache_dir', doc) = None ]_vars

\* C2 happens: a remove returned true while another identifier stays cached.
C2_Witness ==
    /\ last.op = "remove" /\ last.ok /\ last.ret = <<TRUE>>
    /\ NothingCached(cache_dir, last.args[1])
    /\ cache_dir.files # NoFiles

\* C3: remove(id) right after a remove(id) that returned, and remove(id)
\* with nothing cached for id, return false and leave the cache as it was.
C3_RemoveIdempotent ==
    [][ /\ last'.op = "remove"
        /\ \/ NothingCached(cache_dir, last'.args[1])
           \/ last.op = "remove" /\ last.ok /\ last.args = last'.args
        => /\ last'.ok
           /\ last'.ret = <<FALSE>>
           /\ cache_dir' = cache_dir ]_vars

\* C3 happens: a remove found nothing and returned false, other files stay.
C3_Witness ==
    /\ last.op = "remove" /\ last.ok /\ last.ret = <<FALSE>>
    /\ cache_dir.files # NoFiles

Serialized == { to_string_pretty(meta) : meta \in CacheMetadata }

HasContent(dir, doc) ==
    \E format \in Formats : exists(dir.files, document_path(doc, format))

\* The positions of doc in a listing.
Positions(listing, doc) ==
    { i \in 1..Len(listing) : listing[i].doc_type = doc }

\* C4: the listing never holds the same identifier twice, and an identifier
\* with content cached in both Html and Text is listed exactly once.
C4_ListedExactlyOnce ==
    last.op = "list_cached_with_metadata" =>
        /\ \A i, j \in 1..Len(last.ret) :
               last.ret[i].doc_type = last.ret[j].doc_type => i = j
        /\ \A doc \in Docs :
               (\A format \in Formats :
                    exists(cache_dir.files, document_path(doc, format)))
               => Cardinality(Positions(last.ret, doc)) = 1

\* C5: list_cached_with_metadata has one entry per listed identifier; an
\* entry's metadata is present exactly when metadata is stored for its
\* identifier, with the stored title; and every identifier with content has
\* an entry, with absent metadata when none is stored for it.
C5_EntryPerIdentifier ==
    last.op = "list_cached_with_metadata" =>
        /\ \A i, j \in 1..Len(last.ret) :
               last.ret[i].doc_type = last.ret[j].doc_type => i = j
        /\ \A i \in 1..Len(last.ret) :
               LET path == metadata_path(last.ret[i].doc_type)
               IN  IF exists(cache_dir.files, path)
                   THEN /\ IsSome(last.ret[i].metadata)
                        /\ to_string_pretty(Unwrap(last.ret[i].metadata))
                               = cache_dir.files[path]
                   ELSE last.ret[i].metadata = None
        /\ \A doc \in Docs :
               HasContent(cache_dir, doc) =>
                   \E i \in Positions(last.ret, doc) :
                       ~exists(cache_dir.files, metadata_path(doc))
                           => last.ret[i].metadata = None

(***************************************************************************)
(* The fetch pipeline's contracts.                                         *)
(***************************************************************************)
Pipeline == {"view_document", "fetch_only_document"}

Made(calls, callee, isOk) ==
    \E i \in 1..Len(calls) : calls[i] = Call(callee, isOk)

Count(calls, callee) ==
    Cardinality({ i \in 1..Len(calls) : calls[i][1] = callee })

MetadataSteps == {"DataTrackerClient::new", "get_document", "store_metadata"}

\* C8: when the fetcher returned (content, Html) and the extraction
\* succeeded, and the content write succeeded, fetch_and_cache returned the
\* extracted text, which is not the HTML, and the Text entry of the
\* identifier holds it, whatever it held before; when the fetcher returned
\* (content, Text), the content is returned and cached as it is; no Html
\* entry is ever written.
C8_ExtractedTextCached ==
    (/\ last.op \in Pipeline
     /\ IsSome(last.fetched)
     /\ Made(last.calls, "store_document", TRUE)) =>
        LET f == Unwrap(last.fetched)
            doc == Resolved[last.args[1]]
        IN  /\ (f.format = "Html" /\ IsSome(f.extracted)) =>
                   /\ last.ret = f.extracted
                   /\ get_document(cache_dir, doc, "Text") = f.extracted
                   /\ f.extracted # Some(f.content)
            /\ f.format = "Text" =>
                   /\ last.ret = Some(f.content)
                   /\ get_document(cache_dir, doc, "Text") = Some(f.content)
            /\ \A d \in Docs : get_document(cache_dir, d, "Html") = None

\* C8 happens: the fetcher returned HTML, the extraction succeeded and the
\* extracted text is cached and returned.
C8_Witness ==
    /\ last.op = "fetch_only_document" /\ last.ok
    /\ IsSome(last.fetched)
    /\ Unwrap(last.fetched).format = "Html"
    /\ IsSome(Unwrap(last.fetched).extracted)
    /\ get_document(cache_dir, Resolved[last.args[1]], "Text") = last.ret

\* C9: when the fetch and the content write succeeded and a step of the
\* metadata (the index client, the lookup or the metadata write) failed,
\* fetch_and_cache returned Ok with the text (the command fails only if the
\* viewer then does), and the Text entry of the identifier holds that text.
C9_MetadataFailureNotFatal ==
    (/\ last.op \in Pipeline
     /\ Made(last.calls, "fetch", TRUE)
     /\ Made(last.calls, "store_document", TRUE)
     /\ \E step \in MetadataSteps : Made(last.calls, step, FALSE)) =>
        LET f == Unwrap(last.fetched)
            text == IF IsSome(f.extracted) THEN f.extracted
                    ELSE Some(f.content)
        IN  /\ last.ok \/ Made(last.calls, "open_in_viewer", FALSE)
            /\ last.ret = text
            /\ get_document(cache_dir, Resolved[last.args[1]], "Text") = text

\* C9 happens: the index lookup failed and the text is returned and cached.
C9_Witness ==
    /\ last.op \in Pipeline
    /\ Made(last.calls, "get_document", FALSE)
    /\ last.ok /\ IsSome(last.ret)
    /\ get_document(cache_dir, Resolved[last.args[1]], "Text") = last.ret

\* C10: a view_document that got its cache manager and fetcher, with
\* refresh false and a cached text for the identifier, hands the cached
\* text to the viewer, calls neither the fetcher nor the index and leaves
\* the cache as it was; with refresh true or no cached text it calls the
\* fetcher exactly once.
C10_CachedUnlessRefresh ==
    [][ (/\ last'.op = "view_document"
         /\ Made(last'.calls, "DocumentFetcher::new", TRUE)) =>
            LET refresh == last'.args[2]
                cached == get_document(cache_dir, Resolved[last'.args[1]],
                                       "Text")
            IN  IF ~refresh /\ IsSome(cached)
                THEN /\ last'.ok \/ Made(last'.calls, "open_in_viewer", FALSE)
                     /\ last'.ret = cached
                     /\ Count(last'.calls, "fetch") = 0
                     /\ \A step \in MetadataSteps :
                            Count(last'.calls, step) = 0
                     /\ cache_dir' = cache_dir
                ELSE Count(last'.calls, "fetch") = 1 ]_vars

\* C10 happens: a view without refresh returned the cached text without a
\* call of the fetcher.
C10_Witness ==
    /\ last.op = "view_document" /\ last.args[2] = FALSE
    /\ last.ok /\ IsSome(last.ret)
    /\ Count(last.calls, "fetch") = 0
    /\ get_document(cache_dir, Resolved[last.args[1]], "Text") = last.ret

\* The metadata files of a directory, with their contents.
MetadataFiles(dir) ==
    Restrict(dir.files,
             { metadata_path(doc) : doc \in Docs } \cap DOMAIN dir.files)

\* C11: when the fetcher call fails, fetch_and_cache fails, has called the
\* fetcher once and nothing else, and leaves every file of the cache as it
\* was; when the content write fails, fetch_and_cache fails without a call
\* of the index or a metadata write, the metadata files being as they were.
C11_FetchFailureLeavesCache ==
    [][ last'.op \in Pipeline =>
            /\ Made(last'.calls, "fetch", FALSE) =>
                   /\ ~last'.ok
                   /\ last'.ret = None
                   /\ Count(last'.calls, "fetch") = 1
                   /\ Count(last'.calls, "store_document") = 0
                   /\ \A step \in MetadataSteps : Count(last'.calls, step) = 0
                   /\ cache_dir'.files = cache_dir.files
            /\ Made(last'.calls, "store_document", FALSE) =>
                   /\ ~last'.ok
                   /\ last'.ret = None
                   /\ \A step \in MetadataSteps : Count(last'.calls, step) = 0
                   /\ MetadataFiles(cache_dir') = MetadataFiles(cache_dir) ]_vars

\* C11 happens: the fetch failed for an identifier whose text is cached, and
\* the text is still there.
C11_Witness ==
    /\ last.op \in Pipeline
    /\ Made(last.calls, "fetch", FALSE)
    /\ ~last.ok
    /\ IsSome(get_document(cache_dir, Resolved[last.args[1]], "Text"))

(***************************************************************************)
(* The identity model's contracts.                                         *)
(***************************************************************************)
IdentifierSources == {"parse", "parse_document", "parse_doc_type"}

\* The identifier an application of parse, parse_document or parse_doc_type
\* produced, if it produced one.
Produced ==
    IF last.op = "parse" THEN last.ret
    ELSE IF last.op \in IdentifierSources THEN Some(last.ret)
    ELSE None

\* C12: every Draft identifier produced by parse, by parse_document and by
\* the search client's parse_doc_type has a name that is lower-cased, has no
\* leading or trailing whitespace and is not empty.
C12_DraftNamesCanonical ==
    \A doc \in { Unwrap(p) : p \in { q \in {Produced} : IsSome(q) } } :
        doc.tag = "Draft" =>
            /\ to_lowercase(doc.name) = doc.name
            /\ trim(doc.name) = doc.name
            /\ doc.name # << >>

\* Other ways to type a document: a space before or after, lower case, no
\* surrounding whitespace and, for a number, the prefix with or without a
\* space after it.
Retyped(document) ==
    { <<" ">> \o document, document \o <<" ">>, to_lowercase(document),
      trim(document) }
    \cup ( IF IsSome(parse_u32(trim(document)))
           THEN { StrRfc \o document, StrRfc \o <<" ">> \o document }
           ELSE { } )

\* C13: two inputs that differ only in letter case or surrounding whitespace
\* (for RFCs also in the prefix and the space after it) resolve through
\* parse_document to identifiers of one canonical name, hence one cache file.
C13_KeyIndependentOfTyping ==
    last.op = "parse_document" =>
        \A document \in Retyped(last.args[1]) :
            /\ name(parse_document(document)) = name(last.ret)
            /\ \A format \in Formats :
                   document_path(parse_document(document), format)
                       = document_path(last.ret, format)

\* C14: the display name of an identifier that parse yielded parses back to
\* that identifier, for the RFC and for the Draft variant.
C14_DisplayNameRoundTrip ==
    last.op = "display_name" => parse(last.ret) = Some(last.args[1])

\* C14 happens for an RFC: its display name has been formed.
C14_Witness ==
    /\ last.op = "display_name"
    /\ last.args[1] = Rfc(10)
    /\ last.ret = <<"R", "F", "C", " ", "1", "0">>

MaxNumber == 111

\* The numbers whose spellings are checked; the last is the largest integer
\* the model checker has.
Numbers == 0..MaxNumber \cup {2147483647}

\* The spellings of RFC n: with or without the prefix in either case, with or
\* without a space after it, with or without surrounding whitespace.
Spellings ==
    [n \in Numbers |->
        { lead \o prefix \o gap \o Decimal(n) \o trail :
              lead \in Pads, trail \in Pads,
              prefix \in { StrRfc, <<"R", "F", "C">> }, gap \in Pads }
        \cup { lead \o Decimal(n) \o trail : lead \in Pads, trail \in Pads }]

\* C15: parse of decimal(n), alone or after the prefix rfc or RFC, with or
\* without a space after the prefix and whitespace around, yields RFC(n),
\* n = 0 included.
C15_NumberSpellings ==
    last.op = "parse" =>
        \A n \in Numbers :
            last.args[1] \in Spellings[n] => last.ret = Some(Rfc(n))

\* C15 happens: RFC 0 was typed with an upper-case prefix, a space and
\* surrounding whitespace.
C15_Witness ==
    /\ last.op = "parse"
    /\ last.args[1] = <<" ", "R", "F", "C", " ", "0", " ">>
    /\ last.ret = Some(Rfc(0))

\* What is typed for the number: the input trimmed and lower-cased, without
\* the prefix rfc and the whitespace after it.
NumberTyped(input) ==
    LET s == to_lowercase(trim(input))
    IN  IF starts_with(s, StrRfc) THEN trim(SubSeq(s, Len(StrRfc) + 1, Len(s)))
        ELSE s

IsDigitString(s) == s # << >> /\ \A i \in 1..Len(s) : IsDigit(s[i])

\* C16: a digit string whose value does not fit a u32, with or without the
\* prefix rfc, makes parse yield no match: no RFC number comes out of it.
C16_OverflowIsNoMatch ==
    last.op = "parse" =>
        LET digits == NumberTyped(last.args[1])
        IN  IsDigitString(digits) /\ ~FitsU32(digits) =>
                ~last.ok /\ last.ret = None

\* C16 happens: 4294967296, one more than the largest u32, was typed after
\* the prefix.
C16_Witness ==
    /\ last.op = "parse"
    /\ last.args[1] = <<"r", "f", "c", "4", "2", "9", "4", "9", "6", "7",
                        "2", "9", "6">>
    /\ last.ret = None

\* The input trimmed and lower-cased.
Typed(input) == to_lowercase(trim(input))

IsSignedDigitString(s) ==
    \/ IsDigitString(s)
    \/ s # << >> /\ Head(s) = "+" /\ IsDigitString(Tail(s))

\* C17 as stated: parse yields no match for every input that is neither an
\* unsigned integer, with or without the prefix rfc, nor contains draft; so
\* for the empty string, whitespace and the bare prefix.
C17_OnlyNumbersAndDrafts ==
    last.op = "parse" =>
        LET number == IsDigitString(NumberTyped(last.args[1]))
            draft == contains(Typed(last.args[1]), StrDraft)
        IN  ~number /\ ~draft => last.ret = None

\* C17: parse yields no match for every input that is neither a digit string
\* with an optional plus sign before it, with or without the prefix rfc, nor
\* contains draft; so for the empty string, whitespace and the bare prefix.
C17_OnlySignedNumbersAndDrafts ==
    last.op = "parse" =>
        LET number == IsSignedDigitString(NumberTyped(last.args[1]))
            draft == contains(Typed(last.args[1]), StrDraft)
        IN  ~number /\ ~draft => last.ret = None

\* C17 happens: the bare prefix in upper case was parsed, with no match.
C17_Witness ==
    /\ last.op = "parse"
    /\ last.args[1] = <<"R", "F", "C">>
    /\ last.ret = None

\* C18: parse_document never fails and returns an identifier for every
\* input; when parse yields no match the identifier is Draft("draft-" +
\* input), or Draft(input) for an input that starts with draft-.
C18_ResolveNeverFails ==
    last.op = "parse_document" =>
        /\ last.ok
        /\ last.ret.tag \in {"Rfc", "Draft"}
        /\ parse(last.args[1]) = None =>
               last.ret = IF starts_with(last.args[1], StrDraftDash)
                          THEN Draft(last.args[1])
                          ELSE Draft(StrDraftDash \o last.args[1])

\* C18 happens: an input that parse does not match was resolved to a draft.
C18_Witness ==
    /\ last.op = "parse_document"
    /\ last.args[1] = <<"a">>
    /\ parse(last.args[1]) = None
    /\ last.ret = Draft(<<"d", "r", "a", "f", "t", "-", "a">>)

(***************************************************************************)
(* The search client's contracts.                                          *)
(***************************************************************************)
\* A search that returned a result.
Searched == last.op = "search" /\ last.ok

\* The records the index answered the search with, and the documents of the
\* search's result.
Answered == last.args[4].objects

Found == Unwrap(last.ret).documents

\* C19: every document of a search result comes from a record whose name
\* starts with rfc or draft-, and a record with another name is not in the
\* result, whatever the filter.
C19_OnlyRfcsAndDrafts ==
    Searched =>
        /\ \A i \in DOMAIN Found :
               /\ \E j \in DOMAIN Answered :
                      /\ Answered[j].name = Found[i].name
                      /\ Answered[j].title = Found[i].title
               /\ \/ starts_with(Found[i].name, StrRfc)
                  \/ starts_with(Found[i].name, StrDraftDash)
        /\ \A j \in DOMAIN Answered :
               ( /\ ~starts_with(Answered[j].name, StrRfc)
                 /\ ~starts_with(Answered[j].name, StrDraftDash) )
               => \A i \in DOMAIN Found : Found[i].name # Answered[j].name

\* C19 happens: the index answered with a slides record between two others,
\* and the search with filter Both returned the two others.
C19_Witness ==
    /\ Searched
    /\ last.args[2] = "Both"
    /\ Len(Answered) = 3
    /\ Answered[2].name = <<"s", "l", "i", "d", "e", "s", "-", "a">>
    /\ Len(Found) = 2

\* The records of the answer that pass the name filter, in the order of the
\* answer.
Qualifying ==
    LET Passes(doc) ==
            starts_with(doc.name, StrRfc) \/ starts_with(doc.name, StrDraftDash)
    IN  SelectSeq(Answered, Passes)

\* C20: the documents of a search result are the first min(limit, k) of the
\* k records that pass the name filter, in the order of the answer: at most
\* limit documents, none reordered, no qualifying record skipped.
C20_FirstQualifyingInOrder ==
    Searched =>
        LET limit == last.args[3]
            k == Len(Qualifying)
        IN  /\ Len(Found) = IF limit < k THEN limit ELSE k
            /\ Len(Found) <= limit
            /\ \A i \in DOMAIN Found :
                   /\ Found[i].name = Qualifying[i].name
                   /\ Found[i].title = Qualifying[i].title

\* C20 happens: three records of four pass, a slides record comes before the
\* second of them, and a search with limit 2 returned the first two.
C20_Witness ==
    /\ Searched
    /\ last.args[3] = 2
    /\ Len(Answered) = 4
    /\ Len(Qualifying) = 3
    /\ ~is_rfc_or_draft(Answered[2].name)
    /\ Len(Found) = 2
    /\ Found[2].name = Answered[3].name
    /\ Found[1].name # Found[2].name

\* The cursor of the answer, the limit asked for and the result of a search.
Cursor == last.args[4].meta.next

Limit == last.args[3]

Result == Unwrap(last.ret)

\* C21: a successful search has has_more true exactly when the answer had a
\* next-page cursor or as many documents were returned as the limit: true
\* for a result that fills the limit without a cursor, false for a shorter
\* one without a cursor.
C21_HasMore ==
    Searched =>
        /\ Result.has_more <=> (IsSome(Cursor) \/ Len(Found) = Limit)
        /\ Cursor = None /\ Len(Found) = Limit => Result.has_more
        /\ Cursor = None /\ Len(Found) < Limit => ~Result.has_more

\* C21 happens: a search with limit 2 returned two documents from an answer
\* without a cursor, and reports more.
C21_Witness ==
    /\ Searched
    /\ Cursor = None
    /\ Limit = 2
    /\ Len(Found) = 2
    /\ Result.has_more

\* The response a search got: not sent, or a status and a body.
Response == Unwrap(last.fetched).response

\* C23: a search returns a complete result or fails as a whole: when the
\* request is not sent, when the status is not a success, also with a body
\* that would parse, and when the body does not parse, it returns an error
\* and no documents; otherwise a result with documents, has_more, the query
\* and the filter.
C23_SearchAllOrNothing ==
    last.op = "search" =>
        IF \/ ~Response.ok
           \/ ~Response.val[1].success
           \/ ~Response.val[1].json.ok
        THEN ~last.ok /\ last.ret = None
        ELSE /\ last.ok
             /\ DOMAIN Result = {"documents", "has_more", "query", "filter"}
             /\ Result.query = last.args[1]
             /\ Result.filter = last.args[2]
             /\ Len(Found) = IF Limit < Len(Qualifying) THEN Limit
                             ELSE Len(Qualifying)

\* C23 happens: the index answered with a failure status and a body that
\* holds records which would have been returned, and the search failed.
C23_Witness ==
    /\ last.op = "search"
    /\ Response.ok
    /\ ~Response.val[1].success
    /\ Response.val[1].json.ok
    /\ Len(Qualifying) > 0
    /\ Limit > 0
    /\ ~last.ok
    /\ last.ret = None

\* C30: a successful search that returns no documents from an answer without
\* a cursor has has_more false, for every limit, 0 included.
C30_EmptyHasNoMore ==
    Searched /\ Len(Found) = 0 /\ Cursor = None => ~Result.has_more

(***************************************************************************)
(* The over-fetch of a search.                                             *)
(***************************************************************************)
RECURSIVE MulLimbs(_, _, _)
\* n * factor + carry, one limb wider than n.
MulLimbs(n, factor, carry) ==
    IF n = << >> THEN <<carry>>
    ELSE LET product == Head(n) * factor + carry
         IN  <<product % 65536>>
             \o MulLimbs(Tail(n), factor, product \div 65536)

\* C22: the number of records asked of the index is five times the limit the
\* caller passed, for every limit: also when the product is not a u32, and
\* when the limit from the command line is not a u32.
C22_RequestsFiveTimesLimit ==
    last.op = "api_limit" =>
        Unwrap(last.ret) \o <<0, 0, 0>> = MulLimbs(last.args[1], 5, 0)

(***************************************************************************)
(* The listing's further contracts.                                        *)
(***************************************************************************)
\* The identifiers a listing holds.
Listed == { last.ret[i].doc_type : i \in 1..Len(last.ret) }

\* The identifiers the stems of the given files parse to.
ParsedStems(paths) ==
    { Unwrap(parse(file_stem(path))) :
          path \in { q \in paths : IsSome(parse(file_stem(q))) } }

\* C24: a file of the documents directory whose stem does not parse is left
\* out of the listing without an error, and the identifiers of the other
\* files are all listed.
C24_UnparsedStemSkipped ==
    ( /\ last.op = "list_cached_with_metadata"
      /\ exists(cache_dir.files, ForeignFile) )
    => /\ last.ok
       /\ parse(file_stem(ForeignFile)) = None
       /\ Listed = ParsedStems(DOMAIN cache_dir.files \ {ForeignFile})
       /\ Len(last.ret) = Cardinality(Listed)

\* C24 happens: the documents directory holds the foreign file and the text
\* of two identifiers, and the listing has the two.
C24_Witness ==
    /\ last.op = "list_cached_with_metadata"
    /\ exists(cache_dir.files, ForeignFile)
    /\ \A doc \in Docs : exists(cache_dir.files, document_path(doc, "Text"))
    /\ Len(last.ret) = 2

(***************************************************************************)
(* Concurrent invocations.                                                 *)
(***************************************************************************)
\* C25: a get_document that runs while a store_document of the same
\* identifier and format is in flight returns what the entry held before the
\* store (absent if it held nothing) or the whole new content, never an
\* empty or partly written content.
C25_ReadSeesOldOrNew ==
    [][ ( /\ last'.op = "get_document"
          /\ running # << >>
          /\ running' = running
          /\ last'.args = <<running[1].args[1], running[1].args[2]>> )
        => last'.ret \in {running[1].before, Some(running[1].args[3])} ]_vars

(***************************************************************************)
(* Isolation of the identifiers.                                           *)
(***************************************************************************)
Mutators == {"store_document", "store_metadata", "remove"}

\* What the cache gives for an identifier: its content in both formats and
\* its metadata.
Reads(dir, doc) ==
    <<get_document(dir, doc, "Html"), get_document(dir, doc, "Text"),
      get_metadata(dir, doc)>>

C27_CachedIsListed ==
    last.op = "list_cached_with_metadata" =>
        \A document \in UserInputs :
            HasContent(cache_dir, Resolved[document])
                => Resolved[document] \in Listed

\* C28: every identifier of a listing has a content file, Html or Text, in
\* the cache, that is a content file whose stem parses to it: an identifier
\* with a metadata file alone is not listed.
C28_ListedHasContent ==
    last.op = "list_cached_with_metadata" =>
        \A doc \in Listed :
            \E cached \in Docs, format \in Formats :
                /\ exists(cache_dir.files, document_path(cached, format))
                /\ parse(file_stem(document_path(cached, format))) = Some(doc)

\* C29: in every state the commands reach from an empty cache, whether they
\* succeed or fail part way, an identifier that has a metadata file has its
\* text cached.
C29_MetadataImpliesText ==
    \A doc \in Docs :
        exists(cache_dir.files, metadata_path(doc))
            => exists(cache_dir.files, document_path(doc, "Text"))

(***************************************************************************)
(* The identifiers of a search result.                                     *)
(***************************************************************************)
\* What follows the prefix rfc in a record's name, when the name has it.
AfterRfc(api_name) == strip_prefix(api_name, StrRfc)

\* A record's name is rfc followed by a decimal number.
IsRfcRecord(api_name) ==
    IsSome(AfterRfc(api_name)) /\ IsDigitString(Unwrap(AfterRfc(api_name)))

\* C31: for every document of a search result, the canonical name of its
\* doc_type is the record's name; a record named rfc followed by a decimal
\* number has the doc_type Rfc of that number, every other record of the
\* result has the doc_type Draft of its name, and the name of every Draft of
\* a result starts with draft-.
C31_DocTypeNamesRecord ==
    Searched =>
        \A i \in DOMAIN Found :
            LET doc == Found[i]
            IN  /\ name(doc.doc_type) = doc.name
                /\ IF IsRfcRecord(doc.name)
                   THEN doc.doc_type =
                            Rfc(DigitsValue(Unwrap(AfterRfc(doc.name)), 0))
                   ELSE doc.doc_type = Draft(doc.name)
                /\ doc.doc_type.tag = "Draft"
                       => starts_with(doc.doc_type.name, StrDraftDash)

(***************************************************************************)
(* Concurrent removals.                                                    *)
(***************************************************************************)
\* C32: every invocation of remove returns Ok, also when it ran interleaved
\* with another remove of the same identifier: a file the other invocation
\* deleted between this one's exists() and its remove_file is taken for
\* absent.
C32_ConcurrentRemoveTolerant ==
    last.op = "remove" => last.ok

====
